---- MODULE Spec2Model ----
(***************************************************************************)
(* Model of beetsplug/restapi.py: the RestApiPlugin import-result          *)
(* aggregator (import_choices, action_counts), its import_task_choice      *)
(* listener record_import_choice, and the PUT /import handler import_path. *)
(*                                                                         *)
(* Spec     : requests are handled one after another (one handler thread). *)
(* SpecConc : two handler threads share the plugin object, as under the    *)
(*            threaded development server app.run starts.  There a whole   *)
(*            listener call is one step, so the interleavings explored are *)
(*            a subset of those the threads can produce.                   *)
(***************************************************************************)
EXTENDS Integers, Sequences, FiniteSets, TLC

\* Bounds of the model.
MaxItems == 2      \* most items in one import task
MaxRun == 2        \* most items the engine hands to the listener in one run (Spec)
MaxRunConc == 2    \* the same, summed over both threads (SpecConc)

Threads == {1, 2}
SeqThreads == {1}

\* ImportTask.choice_flag.name values (opaque keys for the plugin).
Kinds == {"APPLY", "SKIP"}
Artists == {"", "A"}
Albums == {"X"}
Titles == {"T1", "T2"}
\* Item.path is a bytes object: "\xc3\xa9" (e-acute in UTF-8) and "\xff" (not UTF-8).
Paths == {<<195, 169>>, <<255>>}

Items == [albumartist : Artists, album : Albums, title : Titles, path : Paths]

RECURSIVE SeqsUpTo(_, _)
SeqsUpTo(S, n) ==
  IF n = 0 THEN {<<>>}
  ELSE LET shorter == SeqsUpTo(S, n - 1)
       IN shorter \cup {Append(s, x) : s \in {q \in shorter : Len(q) = n - 1}, x \in S}

\* An import task as the listener sees it: task.choice_flag.name and task.items.
Tasks == [kind : Kinds, items : SeqsUpTo(Items, MaxItems)]

----------------------------------------------------------------------------
\* bytes.decode(): strict UTF-8.

IsCont(b) == b \in 128..191

\* Number of bytes of the well-formed UTF-8 sequence bs starts with, 0 if none.
Utf8Width(bs) ==
  LET n == Len(bs)
      b == bs[1]
  IN IF b < 128 THEN 1
     ELSE IF b \in 194..223 THEN
       IF n >= 2 /\ IsCont(bs[2]) THEN 2 ELSE 0
     ELSE IF b \in 224..239 THEN
       IF n >= 3 /\ IsCont(bs[2]) /\ IsCont(bs[3])
            /\ (b = 224 => bs[2] >= 160) /\ (b = 237 => bs[2] <= 159)
       THEN 3 ELSE 0
     ELSE IF b \in 240..244 THEN
       IF n >= 4 /\ IsCont(bs[2]) /\ IsCont(bs[3]) /\ IsCont(bs[4])
            /\ (b = 240 => bs[2] >= 144) /\ (b = 244 => bs[2] <= 143)
       THEN 4 ELSE 0
     ELSE 0

Utf8CodePoint(bs, w) ==
  IF w = 1 THEN bs[1]
  ELSE IF w = 2 THEN (bs[1] % 32) * 64 + (bs[2] % 64)
  ELSE IF w = 3 THEN (bs[1] % 16) * 4096 + (bs[2] % 64) * 64 + (bs[3] % 64)
  ELSE (bs[1] % 8) * 262144 + (bs[2] % 64) * 4096 + (bs[3] % 64) * 64 + (bs[4] % 64)

\* i.path.decode(): [ok |-> TRUE, text |-> code points], or ok = FALSE for
\* UnicodeDecodeError.
RECURSIVE Decode(_)
Decode(bs) ==
  IF bs = <<>> THEN [ok |-> TRUE, text |-> <<>>]
  ELSE LET w == Utf8Width(bs)
       IN IF w = 0 THEN [ok |-> FALSE, text |-> <<>>]
          ELSE LET rest == Decode(SubSeq(bs, w + 1, Len(bs)))
               IN [ok |-> rest.ok,
                   text |-> IF rest.ok THEN <<Utf8CodePoint(bs, w)>> \o rest.text ELSE <<>>]

----------------------------------------------------------------------------
\* dict / defaultdict helpers.

EmptyMap == [k \in {} |-> 0]

Put(m, k, v) == [x \in (DOMAIN m) \cup {k} |-> IF x = k THEN v ELSE m[x]]

\* defaultdict.__getitem__ read without the insertion (the insertion is Put).
Get(m, k, default) == IF k \in DOMAIN m THEN m[k] ELSE default

----------------------------------------------------------------------------
\* Python values that may be None (request fields, option values).

PyNone == [t |-> "None"]
PyStr(s) == [t |-> "str", v |-> s]
PyBool(b) == [t |-> "bool", v |-> b]

\* Python truthiness as `if not path` uses it.
Truthy(x) ==
  IF x.t = "None" THEN FALSE
  ELSE IF x.t = "str" THEN x.v # <<>>
  ELSE x.v

\* Request bodies: JSON objects with an optional "path" and an optional "args".
\* Strings are sequences of characters.
PathFields == {PyStr(<<>>), PyStr(<<"/", "m">>)}
ArgsFields == {PyStr(<<"-", "q">>), PyStr(<<" ", "-", "q", " ">>)}

Bodies ==
  {EmptyMap}
    \cup {Put(EmptyMap, "path", p) : p \in PathFields}
    \cup {Put(EmptyMap, "args", a) : a \in ArgsFields}
    \cup {Put(Put(EmptyMap, "path", p), "args", a) : p \in PathFields, a \in ArgsFields}

\* str.split(sep) for a one-character separator: empty tokens are kept.
RECURSIVE Split(_, _)
Split(s, sep) ==
  IF \A n \in 1..Len(s) : s[n] # sep THEN <<s>>
  ELSE LET k == CHOOSE n \in 1..Len(s) : s[n] = sep /\ \A m \in 1..(n - 1) : s[m] # sep
       IN <<SubSeq(s, 1, k - 1)>> \o Split(SubSeq(s, k + 1, Len(s)), sep)

\* [x for x in body.get("args", "").split(" ") if x]
ArgList(body) ==
  SelectSeq(Split(Get(body, "args", PyStr(<<>>)).v, " "), LAMBDA x : x # <<>>)

\* import_cmd.parser.parse_args(argv): -q is a store_true option with dest
\* 'quiet'; an option that is not given keeps the parser's default; every other
\* token is positional.
QuietFlag == <<"-", "q">>

ParseArgs(argv, quietDefault) ==
  [opts |-> Put(EmptyMap, "quiet",
                IF \E n \in 1..Len(argv) : argv[n] = QuietFlag
                THEN PyBool(TRUE) ELSE quietDefault),
   args |-> SelectSeq(argv, LAMBDA x : x # QuietFlag)]

\* optparse.Values.ensure_value(attr, value): sets attr only when it is missing
\* or None.
EnsureValue(values, attr, value) ==
  IF attr \notin DOMAIN values \/ values[attr] = PyNone
  THEN Put(values, attr, value)
  ELSE values

----------------------------------------------------------------------------
\* RestApiPlugin.  self is [import_choices, action_counts].

\* Mutants of reset: one of the two assignments is missing.
resetCountsOnly(self) ==
  [import_choices |-> self.import_choices, action_counts |-> EmptyMap]

resetChoicesOnly(self) ==
  [import_choices |-> EmptyMap, action_counts |-> self.action_counts]

reset(self) == [import_choices |-> EmptyMap, action_counts |-> EmptyMap]

\* Mutant of TrackRecord: the artist and album values are swapped.
TrackRecordSwapped(i) ==
  [artist |-> i.album, album |-> i.albumartist, title |-> i.title,
   path |-> Decode(i.path).text]

\* The dict appended for item i (its "path" needs Decode(i.path).ok).
TrackRecord(i) ==
  [artist |-> i.albumartist, album |-> i.album, title |-> i.title,
   path |-> Decode(i.path).text]

\* Mutant of RecordItem: the count is assigned 1 where the code adds 1.
RecordItemCountAssigned(self, kind, i) ==
  LET byArtist == Get(self.import_choices, kind, EmptyMap)
      byAlbum == Get(byArtist, i.albumartist, EmptyMap)
      bucket == Get(byAlbum, i.album, <<>>)
      WithBucket(b) ==
        Put(self.import_choices, kind,
            Put(byArtist, i.albumartist, Put(byAlbum, i.album, b)))
  IN IF ~Decode(i.path).ok
     THEN [import_choices |-> WithBucket(bucket),
           action_counts |-> self.action_counts,
           raised |-> TRUE]
     ELSE [import_choices |-> WithBucket(Append(bucket, TrackRecord(i))),
           action_counts |-> Put(self.action_counts, kind, 1),
           raised |-> FALSE]

\* One iteration of the loop of record_import_choice.  The subscripts
\* import_choices[kind][albumartist][album] are evaluated, and insert the
\* missing levels, before the dict literal calls i.path.decode(); when that
\* raises, neither the append nor the count increment happens.
RecordItem(self, kind, i) ==
  LET byArtist == Get(self.import_choices, kind, EmptyMap)
      byAlbum == Get(byArtist, i.albumartist, EmptyMap)
      bucket == Get(byAlbum, i.album, <<>>)
      WithBucket(b) ==
        Put(self.import_choices, kind,
            Put(byArtist, i.albumartist, Put(byAlbum, i.album, b)))
  IN IF ~Decode(i.path).ok
     THEN [import_choices |-> WithBucket(bucket),
           action_counts |-> self.action_counts,
           raised |-> TRUE]
     ELSE [import_choices |-> WithBucket(Append(bucket, TrackRecord(i))),
           action_counts |-> Put(self.action_counts, kind,
                                 Get(self.action_counts, kind, 0) + 1),
           raised |-> FALSE]

\* record_import_choice(session, task): the loop over task.items, left at the
\* first item whose path does not decode.
RECURSIVE RecordLoop(_, _, _)
RecordLoop(self, kind, items) ==
  IF items = <<>>
  THEN [import_choices |-> self.import_choices,
        action_counts |-> self.action_counts, raised |-> FALSE]
  ELSE LET after == RecordItem(self, kind, Head(items))
       IN IF after.raised THEN after
          ELSE RecordLoop([import_choices |-> after.import_choices,
                           action_counts |-> after.action_counts],
                          kind, Tail(items))

record_import_choice(self, task) == RecordLoop(self, task.kind, task.items)

----------------------------------------------------------------------------
\* The server process.

VARIABLES
  import_choices,      \* plugin.import_choices: kind -> artist -> album -> list
  action_counts,       \* plugin.action_counts: kind -> int
  parserQuietDefault,  \* the default import_cmd.parser gives the 'quiet' option
  pc,                  \* per handler thread: "idle", "engine" (inside import_cmd.func), "done"
  req,                 \* per thread: the JSON body of the request being (last) handled
  subopts,             \* per thread: the options handed to import_cmd.func
  resp,                \* per thread: the response of the request last handled
  received,            \* per thread: the <<kind, item>> pairs the listener was called
                       \*   with since this thread's request started
  engine,              \* per thread: what became of this request's import_cmd.func call:
                       \*   "notcalled", "running", "returned", "EngineError" (it raised
                       \*   by itself), "UnicodeDecodeError" (the listener raised)
  prior                \* per thread: what the plugin held when this request began:
                       \*   "empty", or TrackRecords, left there after this thread's
                       \*   previous run "returned" or "raised", or else "foreign"
                       \*   (written by another thread)

vars == <<import_choices, action_counts, parserQuietDefault, pc, req, subopts,
          resp, received, engine, prior>>

plugin == [import_choices |-> import_choices, action_counts |-> action_counts]

\* The plugin object before __init__ has called reset: reset reads neither field.
Unset == [import_choices |-> EmptyMap, action_counts |-> EmptyMap]

NoResponse == [status |-> 0, ok |-> FALSE, summary |-> EmptyMap, details |-> EmptyMap]

\* flask.abort(400, {'message': '"path" is required'})
BadRequest == [status |-> 400, ok |-> FALSE, summary |-> EmptyMap, details |-> EmptyMap]

\* An exception leaving import_path: the framework answers with its generic error.
ServerError == [status |-> 500, ok |-> FALSE, summary |-> EmptyMap, details |-> EmptyMap]

\* jsonify(ok=True, summary=plugin.action_counts, details=plugin.import_choices)
Jsonify(self) ==
  [status |-> 200, ok |-> TRUE,
   summary |-> self.action_counts, details |-> self.import_choices]

\* Mutant of PathMissing: `if path is None`.
PathMissingNoneOnly(path) == path = PyNone

\* `if not path` of import_path.
PathMissing(path) == ~Truthy(path)

\* Some TrackRecord is stored in the plugin.
HasRecords(ic) ==
  \E k \in DOMAIN ic : \E a \in DOMAIN ic[k] : \E b \in DOMAIN ic[k][a] : ic[k][a][b] # <<>>

RECURSIVE SumLen(_, _)
SumLen(f, S) ==
  IF S = {} THEN 0
  ELSE LET x == CHOOSE y \in S : TRUE IN Len(f[x]) + SumLen(f, S \ {x})

TotalReceived == SumLen(received, Threads)

\* The state after RestApiPlugin.__init__ (which calls reset) and func (which
\* starts the server), for each default the option parser may give 'quiet'.
InitWith(quietDefaults) ==
  /\ import_choices = reset(Unset).import_choices
  /\ action_counts = reset(Unset).action_counts
  /\ parserQuietDefault \in quietDefaults
  /\ pc = [t \in Threads |-> "idle"]
  /\ req = [t \in Threads |-> EmptyMap]
  /\ subopts = [t \in Threads |-> EmptyMap]
  /\ resp = [t \in Threads |-> NoResponse]
  /\ received = [t \in Threads |-> <<>>]
  /\ engine = [t \in Threads |-> "notcalled"]
  /\ prior = [t \in Threads |-> "empty"]

Init == InitWith({PyNone, PyBool(FALSE), PyBool(TRUE)})

\* import_path up to the call of import_cmd.func: reset, validation, option
\* parsing, ensure_value.
ImportPath(t, bodies) ==
  /\ pc[t] \in {"idle", "done"}
  /\ \E body \in bodies :
       LET fresh == reset(plugin)
           path == Get(body, "path", PyNone)
       IN /\ import_choices' = fresh.import_choices
          /\ action_counts' = fresh.action_counts
          /\ req' = [req EXCEPT ![t] = body]
          /\ received' = [received EXCEPT ![t] = <<>>]
          /\ prior' = [prior EXCEPT ![t] =
                         IF ~HasRecords(import_choices) THEN "empty"
                         ELSE IF engine[t] = "returned" THEN "returned"
                         ELSE IF engine[t] \in {"EngineError", "UnicodeDecodeError"}
                              THEN "raised"
                         ELSE "foreign"]
          /\ IF PathMissing(path)
             THEN /\ pc' = [pc EXCEPT ![t] = "done"]
                  /\ engine' = [engine EXCEPT ![t] = "notcalled"]
                  /\ resp' = [resp EXCEPT ![t] = BadRequest]
                  /\ subopts' = [subopts EXCEPT ![t] = EmptyMap]
             ELSE LET parsed == ParseArgs(ArgList(body) \o <<path.v>>, parserQuietDefault)
                  IN /\ pc' = [pc EXCEPT ![t] = "engine"]
                     /\ engine' = [engine EXCEPT ![t] = "running"]
                     /\ resp' = [resp EXCEPT ![t] = NoResponse]
                     /\ subopts' = [subopts EXCEPT ![t] =
                                      EnsureValue(parsed.opts, "quiet", PyBool(TRUE))]
  /\ UNCHANGED parserQuietDefault

\* The import engine, inside import_cmd.func, sends import_task_choice for one
\* task: the listener runs.  A UnicodeDecodeError leaves the listener, the engine
\* and import_path.
RecordImportChoice(t, tasks, bound) ==
  /\ pc[t] = "engine"
  /\ \E task \in tasks :
       /\ TotalReceived + Len(task.items) <= bound
       /\ LET after == record_import_choice(plugin, task)
          IN /\ import_choices' = after.import_choices
             /\ action_counts' = after.action_counts
             /\ received' = [received EXCEPT ![t] =
                               @ \o [n \in 1..Len(task.items) |-> <<task.kind, task.items[n]>>]]
             /\ IF after.raised
                THEN /\ pc' = [pc EXCEPT ![t] = "done"]
                     /\ resp' = [resp EXCEPT ![t] = ServerError]
                     /\ subopts' = [subopts EXCEPT ![t] = EmptyMap]
                     /\ engine' = [engine EXCEPT ![t] = "UnicodeDecodeError"]
                ELSE UNCHANGED <<pc, resp, subopts, engine>>
  /\ UNCHANGED <<parserQuietDefault, req, prior>>

\* import_cmd.func returns; import_path builds the 200 response.
ImportReturns(t) ==
  /\ pc[t] = "engine"
  /\ pc' = [pc EXCEPT ![t] = "done"]
  /\ resp' = [resp EXCEPT ![t] = Jsonify(plugin)]
  /\ subopts' = [subopts EXCEPT ![t] = EmptyMap]
  /\ engine' = [engine EXCEPT ![t] = "returned"]
  /\ UNCHANGED <<import_choices, action_counts, parserQuietDefault, req, received,
                 prior>>

\* import_cmd.func raises for a reason of its own; nothing in import_path catches it.
ImportRaises(t) ==
  /\ pc[t] = "engine"
  /\ pc' = [pc EXCEPT ![t] = "done"]
  /\ resp' = [resp EXCEPT ![t] = ServerError]
  /\ subopts' = [subopts EXCEPT ![t] = EmptyMap]
  /\ engine' = [engine EXCEPT ![t] = "EngineError"]
  /\ UNCHANGED <<import_choices, action_counts, parserQuietDefault, req, received,
                 prior>>

Next ==
  \E t \in SeqThreads :
    \/ ImportPath(t, Bodies)
    \/ RecordImportChoice(t, Tasks, MaxRun)
    \/ ImportReturns(t)
    \/ ImportRaises(t)

Spec == Init /\ [][Next]_vars

\* Two handler threads.  The requests and tasks are a few representative ones:
\* a body without a path and one with; tasks of one kind whose items decode.
ConcBodies == {EmptyMap, Put(EmptyMap, "path", PyStr(<<"/", "m">>))}

ConcTasks ==
  {task \in Tasks :
     /\ task.kind = "APPLY"
     /\ Len(task.items) = 1
     /\ \A n \in 1..Len(task.items) :
          /\ task.items[n].albumartist = "A"
          /\ task.items[n].album = "X"
          /\ Decode(task.items[n].path).ok}

InitConc == InitWith({PyNone})

NextConc ==
  \E t \in Threads :
    \/ ImportPath(t, ConcBodies)
    \/ RecordImportChoice(t, ConcTasks, MaxRunConc)
    \/ ImportReturns(t)
    \/ ImportRaises(t)

SpecConc == InitConc /\ [][NextConc]_vars

----------------------------------------------------------------------------
\* Reading the aggregator.

\* The list at ic[k][a][b]; the empty list when a level is missing.
Bucket(ic, k, a, b) == Get(Get(Get(ic, k, EmptyMap), a, EmptyMap), b, <<>>)

RECURSIVE SumArtists(_, _)
SumArtists(byArtist, S) ==
  IF S = {} THEN 0
  ELSE LET a == CHOOSE x \in S : TRUE
       IN SumLen(byArtist[a], DOMAIN byArtist[a]) + SumArtists(byArtist, S \ {a})

\* Sum of the lengths of all (artist, album) buckets under ic[k].
KindTotal(ic, k) == IF k \in DOMAIN ic THEN SumArtists(ic[k], DOMAIN ic[k]) ELSE 0

\* The <<kind, item>> pairs of rcv with kind k, artist a and album b, in order.
ReceivedFor(rcv, k, a, b) ==
  SelectSeq(rcv, LAMBDA p : p[1] = k /\ p[2].albumartist = a /\ p[2].album = b)

\* The bucket the pairs of rcv call for: one TrackRecord per item, in order.
ExpectedBucket(rcv, k, a, b) ==
  LET sel == ReceivedFor(rcv, k, a, b)
  IN [n \in 1..Len(sel) |-> TrackRecord(sel[n][2])]

ReceivedOfKind(rcv, k) == {n \in 1..Len(rcv) : rcv[n][1] = k}

ReceivedKinds(rcv) == {rcv[n][1] : n \in 1..Len(rcv)}

\* summary and details are what a run that received exactly rcv produces.
HoldsExactly(summary, details, rcv) ==
  /\ DOMAIN summary = ReceivedKinds(rcv)
  /\ DOMAIN details = ReceivedKinds(rcv)
  /\ \A k \in Kinds : Get(summary, k, 0) = Cardinality(ReceivedOfKind(rcv, k))
  /\ \A k \in Kinds, a \in Artists, b \in Albums :
       Bucket(details, k, a, b) = ExpectedBucket(rcv, k, a, b)

----------------------------------------------------------------------------
\* C1: after every reset() and record_import_choice() call of a single thread
\* of control, for every kind the lengths of the kind's buckets sum to the
\* kind's count (0 when the kind has no count).
C1_CountIsSumOfBuckets ==
  \A k \in Kinds \cup DOMAIN import_choices \cup DOMAIN action_counts :
    KindTotal(import_choices, k) = Get(action_counts, k, 0)

\* A kind with two records spread over two buckets.
C1_Witness ==
  \E k \in Kinds :
    /\ Get(action_counts, k, 0) = 2
    /\ Len(Bucket(import_choices, k, "", "X")) = 1
    /\ Len(Bucket(import_choices, k, "A", "X")) = 1

----------------------------------------------------------------------------
\* The body has no "path", or an empty one.
NoPath(body) == "path" \notin DOMAIN body \/ body["path"] = PyStr(<<>>)

C3_ResponseHoldsOwnRun ==
  \A t \in SeqThreads :
    resp[t].status = 200
      => /\ engine[t] = "returned"
         /\ resp[t].ok
         /\ HoldsExactly(resp[t].summary, resp[t].details, received[t])

\* A 200 response with two records, after an earlier request had returned with
\* records of its own.
C3_Witness ==
  /\ resp[1].status = 200
  /\ Len(received[1]) = 2
  /\ prior[1] = "returned"

\* C4 as claimed: within a run every bucket is exactly the TrackRecords of the
\* items the listener received with the bucket's kind, artist and album, in the
\* order received.
C4_BucketsAreReceivedItems ==
  \A t \in SeqThreads :
    engine[t] # "notcalled"
      => \A k \in Kinds, a \in Artists, b \in Albums :
           Bucket(import_choices, k, a, b) = ExpectedBucket(received[t], k, a, b)

RECURSIVE SumCounts(_, _)
SumCounts(ac, S) ==
  IF S = {} THEN 0
  ELSE LET k == CHOOSE x \in S : TRUE IN ac[k] + SumCounts(ac, S \ {k})

\* C6 as claimed: the listener never raises because of a path that does not
\* decode; every item it received is counted.
C6_UndecodablePathTolerated ==
  \A t \in SeqThreads :
    /\ engine[t] # "UnicodeDecodeError"
    /\ engine[t] # "notcalled"
         => SumCounts(action_counts, DOMAIN action_counts) = Len(received[t])

\* C7 as claimed: with two requests in flight, no request resets the plugin
\* while the other is between its reset and its read, and every 200 response
\* holds exactly its own request's decisions, counts matching bucket lengths.
C7_RunsAreIsolated ==
  /\ [][\A t \in Threads, u \in Threads :
          (t # u /\ pc[u] = "engine") => ~ImportPath(t, ConcBodies)]_vars
  /\ [](\A t \in Threads :
          resp[t].status = 200
            => /\ HoldsExactly(resp[t].summary, resp[t].details, received[t])
               /\ \A k \in Kinds :
                    KindTotal(resp[t].details, k) = Get(resp[t].summary, k, 0))

C9_SameKindsNoEmptyBucket ==
  /\ DOMAIN import_choices = DOMAIN action_counts
  /\ \A k \in DOMAIN import_choices :
       \A a \in DOMAIN import_choices[k] :
         \A b \in DOMAIN import_choices[k][a] : import_choices[k][a][b] # <<>>

\* C10: every TrackRecord in bucket [k][a][b] has artist a and album b, and a
\* listener call for a task of kind k changes no bucket and no count of
\* another kind.
C10_RecordsMatchKeysOtherKindsKept ==
  /\ [](\A k \in DOMAIN import_choices :
          \A a \in DOMAIN import_choices[k] :
            \A b \in DOMAIN import_choices[k][a] :
              \A n \in 1..Len(import_choices[k][a][b]) :
                /\ import_choices[k][a][b][n].artist = a
                /\ import_choices[k][a][b][n].album = b)
  /\ [][\A t \in SeqThreads :
          Len(received'[t]) > Len(received[t])
            => \A k \in Kinds \ {received'[t][Len(received'[t])][1]} :
                 /\ (k \in DOMAIN import_choices') = (k \in DOMAIN import_choices)
                 /\ Get(import_choices', k, EmptyMap) = Get(import_choices, k, EmptyMap)
                 /\ (k \in DOMAIN action_counts') = (k \in DOMAIN action_counts)
                 /\ Get(action_counts', k, 0) = Get(action_counts, k, 0)]_vars

\* Both kinds hold a record, one of them under the empty artist.
C10_Witness ==
  /\ Len(Bucket(import_choices, "APPLY", "", "X")) = 1
  /\ Len(Bucket(import_choices, "SKIP", "A", "X")) = 1

====
